---- MODULE Spec2Model ----
(***************************************************************************)
(* The NenDB Go driver: client construction (NewClient), the retrying      *)
(* request primitive (makeRequest) and the operations built on it.         *)
(* Strings that the code only compares or concatenates are sequences of    *)
(* tokens ("/" is one token); durations are whole seconds.                 *)
(***************************************************************************)
EXTENDS Integers, Sequences, FiniteSets, TLC

VARIABLES
    cfgIn,      \* the *ClientConfig handed to NewClient (NULL for nil)
    callers,    \* the goroutines of the application that use the client
    appOps,     \* the operations the application calls
    appArgs,    \* the arguments the application passes to them
    server,     \* the server the client talks to: [redirects]
    lib,        \* the last call into pkg/types or pkg/errors: [fn, in, out]
    ncPc,       \* NewClient's position: "start", "probe", "returned"
    client,     \* the NenDBClient object built by NewClient (NULL before)
    ncRet,      \* what NewClient returned: [client, err]
    pc,         \* per call: "idle", "loop", "send", "inflight", "done"
    op,         \* per call: the operation that called makeRequest
    arg,        \* per call: the arguments the operation was called with
    reqURL,     \* per call: requestURL built by makeRequest
    reqBody,    \* per call: the body reader of req: "none", "unread", "drained"
    attempt,    \* per call: the loop variable of makeRequest
    lastErr,    \* per call: the lastErr local of makeRequest
    sent,       \* per call: how many times httpClient.Do was called
    waited,     \* per call: total time spent in time.Sleep
    ctxDone,    \* per call: the ctx passed to the call is cancelled/expired
    mr,         \* per call: what makeRequest returned: [body, err]
    hist        \* per call: what its own attempts met (kept for the proofs)

vars == <<cfgIn, callers, appOps, appArgs, server, lib, ncPc, client, ncRet, pc, op, arg,
          reqURL, reqBody, attempt, lastErr, sent, waited, ctxDone, mr, hist>>

callVars ==
    <<pc, op, arg, reqURL, reqBody, attempt, lastErr, sent, waited, ctxDone, mr,
      hist>>

\* what makeRequest never touches: the configuration and the client
clientVars ==
    <<cfgIn, callers, appOps, appArgs, server, lib, ncPc, client, ncRet>>

----------------------------------------------------------------------------
(* Bounds of the model *)

MaxRetriesBound == 2
MaxUrlLen == 3
MaxId == 1

----------------------------------------------------------------------------
(* Values *)

NULL == [null |-> TRUE]

\* no call into pkg/types or pkg/errors yet
NoLib == [fn |-> "none", in |-> NULL, out |-> NULL]

\* a Go string: a sequence of tokens
Str(s) == [t |-> "string", v |-> s]
Num(s) == [t |-> "number", v |-> s]

\* a Go error value of the transport (the err of Do, ReadAll, fmt.Errorf)
NilErr == [nil |-> TRUE, text |-> <<>>]
GoErr(text) == [nil |-> FALSE, text |-> text]
NetErr == GoErr(<<"dial tcp: connection refused">>)
CtxErr == GoErr(<<"context canceled">>)
ReadErr == GoErr(<<"unexpected EOF">>)
BodyErr == GoErr(<<"http: ContentLength=N with Body length 0">>)

\* a map[string]interface{}: nil, or a set of <<key, value>> pairs
NilMap == [nil |-> TRUE, m |-> {}]
Map(m) == [nil |-> FALSE, m |-> m]
Keys == <<"code", "error", "message", "url">>

HasKey(d, k) == \E p \in d.m : p[1] = k
Lookup(d, k) == (CHOOSE p \in d.m : p[1] = k)[2]

\* fmt "%v" of a map: map[k:v k:v], keys in sorted order
RECURSIVE FmtEntries(_, _)
FmtEntries(d, i) ==
    IF i > Len(Keys) THEN <<>>
    ELSE (IF HasKey(d, Keys[i])
             THEN <<Keys[i], ":">> \o Lookup(d, Keys[i]).v \o <<" ">>
             ELSE <<>>) \o FmtEntries(d, i + 1)

FmtMap(d) == <<"map[">> \o FmtEntries(d, 1) \o <<"]">>

\* the calls: the Health call inside NewClient, and one per goroutine
Probe == "probe"
UserCalls == {"g1", "g2"}
CallIds == {Probe} \cup UserCalls

----------------------------------------------------------------------------
(* pkg/errors *)

\* a time.Time: the zero Time, or a reading of the clock
ZeroTime == [zero |-> TRUE]
TimeNow == [zero |-> FALSE]

\* errors.New that stores the details mapping as it was passed
NewKeepsNil(message, details) ==
    [Message |-> message, Details |-> details, Time |-> TimeNow]

\* errors.New: a nil details mapping becomes an empty one
New(message, details) ==
    [Message |-> message,
     Details |-> IF details.nil THEN Map({}) ELSE details,
     Time |-> TimeNow]

\* (*NenDBError).Error
Error(e) ==
    IF Cardinality(e.Details.m) > 0
        THEN e.Message \o <<" - Details: ">> \o FmtMap(e.Details)
        ELSE e.Message

NewConnectionError(message, details) ==
    [e |-> New(message, details), kind |-> "connection"]

NewTimeoutError(message, details) ==
    [e |-> New(message, details), kind |-> "timeout"]

NewValidationError(message, details) ==
    [e |-> New(message, details), kind |-> "validation"]

NewAlgorithmError(message, details) ==
    [e |-> New(message, details), kind |-> "algorithm"]

NewResponseError(message, details) ==
    [e |-> New(message, details), kind |-> "response"]

\* the nil error interface value
NoError ==
    [e |-> [Message |-> <<>>, Details |-> NilMap, Time |-> ZeroTime],
     kind |-> "nil"]

\* the dynamic type a type switch on an error finds: one of the NenDB kinds,
\* or "plain" for an error of fmt.Errorf or of the standard library
KindOf(err) ==
    IF "kind" \in DOMAIN err THEN err.kind
    ELSE IF err.nil THEN "nil" ELSE "plain"

----------------------------------------------------------------------------
(* pkg/types *)

\* a []string: nil, or a sequence
NilSlice == [s |-> <<>>, nil |-> TRUE]
Slice(s) == [s |-> s, nil |-> FALSE]

\* what a constructor returns: (object, error)
Built(obj) == [err |-> NilErr, obj |-> obj]
Failed(text) == [err |-> GoErr(<<text>>), obj |-> NULL]

\* NewGraphNode that stores nil collections as they were passed
NewGraphNodeKeepsNil(id, labels, properties) ==
    IF id < 0 THEN Failed("node ID must be a non-negative integer")
    ELSE Built([ID |-> id, Labels |-> labels, Properties |-> properties])

NewGraphNode(id, labels, properties) ==
    IF id < 0 THEN Failed("node ID must be a non-negative integer")
    ELSE Built([ID |-> id,
                Labels |-> IF labels.nil THEN Slice(<<>>) ELSE labels,
                Properties |-> IF properties.nil THEN Map({})
                                                 ELSE properties])

\* Validate without the nil checks
GraphNodeValidateIgnoresNil(n) ==
    IF n.ID < 0 THEN GoErr(<<"node ID must be a non-negative integer">>)
    ELSE NilErr

\* (*GraphNode).Validate
GraphNodeValidate(n) ==
    IF n.ID < 0 THEN GoErr(<<"node ID must be a non-negative integer">>)
    ELSE IF n.Labels.nil THEN GoErr(<<"labels cannot be nil">>)
    ELSE IF n.Properties.nil THEN GoErr(<<"properties cannot be nil">>)
    ELSE NilErr

NewGraphEdge(id, source, target, edgeType, properties) ==
    IF id < 0 THEN Failed("edge ID must be a non-negative integer")
    ELSE IF source < 0
        THEN Failed("source node ID must be a non-negative integer")
    ELSE IF target < 0
        THEN Failed("target node ID must be a non-negative integer")
    ELSE IF edgeType = <<>> THEN Failed("edge type cannot be empty")
    ELSE Built([ID |-> id,
                Properties |-> IF properties.nil THEN Map({})
                                                 ELSE properties,
                Source |-> source,
                Target |-> target,
                Type |-> edgeType])

\* (*GraphEdge).Validate
GraphEdgeValidate(e) ==
    IF e.ID < 0 THEN GoErr(<<"edge ID must be a non-negative integer">>)
    ELSE IF e.Source < 0
        THEN GoErr(<<"source node ID must be a non-negative integer">>)
    ELSE IF e.Target < 0
        THEN GoErr(<<"target node ID must be a non-negative integer">>)
    ELSE IF e.Type = <<>> THEN GoErr(<<"edge type cannot be empty">>)
    ELSE IF e.Properties.nil THEN GoErr(<<"properties cannot be nil">>)
    ELSE NilErr

NewAlgorithmResult(algorithm, status, message, metadata) ==
    IF algorithm = <<>> THEN Failed("algorithm name cannot be empty")
    ELSE IF message = <<>> THEN Failed("message cannot be empty")
    ELSE Built([Message |-> message,
                Algorithm |-> algorithm,
                Status |-> status,
                Metadata |-> IF metadata.nil THEN Map({}) ELSE metadata])

\* (*AlgorithmResult).Validate
AlgorithmResultValidate(r) ==
    IF r.Algorithm = <<>> THEN GoErr(<<"algorithm name cannot be empty">>)
    ELSE IF r.Message = <<>> THEN GoErr(<<"message cannot be empty">>)
    ELSE IF r.Metadata.nil THEN GoErr(<<"metadata cannot be nil">>)
    ELSE NilErr

\* the AlgorithmStatus constants
AlgorithmStatuses ==
    {"queued", "running", "completed", "failed", "cancelled"}

\* an interface{} value as reflection sees it: nil, or its Kind
NilValue == [nil |-> TRUE, kind |-> "Invalid"]
Value(kind) == [nil |-> FALSE, kind |-> kind]

\* the kinds of package reflect that a non-nil interface{} can hold
Kinds ==
    {"Bool", "Int", "Int8", "Int16", "Int32", "Int64",
     "Uint", "Uint8", "Uint16", "Uint32", "Uint64", "Uintptr",
     "Float32", "Float64", "Complex64", "Complex128",
     "Array", "Chan", "Func", "Map", "Pointer", "Slice", "String",
     "Struct", "UnsafePointer"}

\* the switch of IsValidPropertyValue with the string case left out
IsValidPropertyValueNoString(value) ==
    IF value.nil THEN TRUE
    ELSE value.kind \in
            {"Int", "Int8", "Int16", "Int32", "Int64",
             "Uint", "Uint8", "Uint16", "Uint32", "Uint64",
             "Float32", "Float64", "Bool"}

IsValidPropertyValue(value) ==
    IF value.nil THEN TRUE
    ELSE value.kind \in
            {"String", "Int", "Int8", "Int16", "Int32", "Int64",
             "Uint", "Uint8", "Uint16", "Uint32", "Uint64",
             "Float32", "Float64", "Bool"}

----------------------------------------------------------------------------
(* Configuration *)

DefaultBaseURL == <<"http:", "/", "/", "localhost:8080">>
DefaultTimeout == 30
DefaultMaxRetries == 3
DefaultRetryDelay == 1

DefaultConfig ==
    [BaseURL |-> DefaultBaseURL,
     Timeout |-> DefaultTimeout,
     MaxRetries |-> DefaultMaxRetries,
     RetryDelay |-> DefaultRetryDelay,
     SkipValidation |-> FALSE,
     HTTPClient |-> NULL]

\* strings.TrimSuffix in place of TrimRight: at most one "/" removed
TrimRightOnce(s, cut) ==
    IF Len(s) > 0 /\ s[Len(s)] = cut THEN SubSeq(s, 1, Len(s) - 1) ELSE s

\* strings.TrimRight(s, "/")
RECURSIVE TrimRight(_, _)
TrimRight(s, cut) ==
    IF Len(s) > 0 /\ s[Len(s)] = cut
        THEN TrimRight(SubSeq(s, 1, Len(s) - 1), cut)
        ELSE s

----------------------------------------------------------------------------
(* The server's answers *)

Statuses == {200, 204, 302, 404, 500}

\* resp.Status
Status(code) ==
    CASE code = 200 -> "200 OK"
      [] code = 204 -> "204 No Content"
      [] code = 302 -> "302 Found"
      [] code = 404 -> "404 Not Found"
      [] code = 500 -> "500 Internal Server Error"

\* response bodies: a JSON object (its fields), null, or something that
\* does not decode into a map
ObjNotFound == [json |-> "object", fields |-> {<<"message", Str(<<"not found">>)>>}]
ObjNumMsg == [json |-> "object", fields |-> {<<"message", Num(<<"42">>)>>}]
ObjNoMsg == [json |-> "object", fields |-> {<<"code", Num(<<"7">>)>>}]
JsonNull == [json |-> "null", fields |-> {}]
JsonArray == [json |-> "array", fields |-> {}]
NotJson == [json |-> "invalid", fields |-> {}]
NoBody == [json |-> "none", fields |-> {}]

Bodies == {ObjNotFound, ObjNumMsg, ObjNoMsg, JsonNull, JsonArray, NotJson}

\* JSON values of the fields of a node or an edge
JsonInt(n) == [t |-> "number", v |-> <<ToString(n)>>, n |-> n]
JsonArr(a) == [t |-> "array", v |-> a]
JsonObj(m) == [t |-> "object", v |-> <<>>, m |-> m]

\* an object with the fields of a node and of an edge, one with a negative
\* id, and one whose id is a string
ObjEntity ==
    [json |-> "object",
     fields |-> {<<"id", JsonInt(1)>>, <<"labels", JsonArr(<<"Person">>)>>,
                 <<"properties", JsonObj({})>>, <<"source", JsonInt(1)>>,
                 <<"target", JsonInt(2)>>, <<"type", Str(<<"KNOWS">>)>>}]
ObjNegId ==
    [json |-> "object",
     fields |-> {<<"id", JsonInt(-5)>>, <<"labels", JsonArr(<<"Person">>)>>,
                 <<"properties", JsonObj({})>>, <<"source", JsonInt(1)>>,
                 <<"target", JsonInt(2)>>, <<"type", Str(<<"KNOWS">>)>>}]
ObjBadId ==
    [json |-> "object", fields |-> {<<"id", Str(<<"seven">>)>>}]

EntityBodies == {ObjEntity, ObjNegId, ObjBadId}

\* the bodies the server sends with a status: 204 and 302 carry none
BodiesOf(code) ==
    IF code \in {204, 302} THEN {NotJson}
    ELSE IF code = 200 THEN Bodies \cup EntityBodies
    ELSE Bodies

\* json.Unmarshal(respBody, &errorResp) with errorResp a nil map
UnmarshalMap(body) ==
    CASE body.json = "object" -> [v |-> Map(body.fields), err |-> FALSE]
      [] body.json = "null" -> [v |-> NilMap, err |-> FALSE]
      [] OTHER -> [v |-> NilMap, err |-> TRUE]

\* json.Unmarshal's error text
SyntaxErr == <<"invalid character 'o' looking for beginning of value">>
EndErr == <<"unexpected end of JSON input">>
TypeErr == <<"json: cannot unmarshal value into Go value">>

\* the err of json.Unmarshal(respBody, &v) for a body that is JSON or not
JsonErr(body) ==
    CASE body.json = "invalid" -> GoErr(SyntaxErr)
      [] body.json = "none" -> GoErr(EndErr)
      [] OTHER -> NilErr

\* field k of a JSON object is absent or of JSON type t
FieldIs(body, k, t) ==
    LET d == Map(body.fields)
    IN  HasKey(d, k) => Lookup(d, k).t = t

\* the zero values of the structs json.Unmarshal decodes into
ZeroNode == [ID |-> 0, Labels |-> NilSlice, Properties |-> NilMap]
ZeroEdge ==
    [ID |-> 0,
     Properties |-> NilMap,
     Source |-> 0,
     Target |-> 0,
     Type |-> <<>>]

\* the int, []string, string and map fields as json.Unmarshal sets them
IntField(body, k) ==
    LET d == Map(body.fields)
    IN  IF HasKey(d, k) THEN Lookup(d, k).n ELSE 0
SliceField(body, k) ==
    LET d == Map(body.fields)
    IN  IF HasKey(d, k) THEN Slice(Lookup(d, k).v) ELSE NilSlice
StringField(body, k) ==
    LET d == Map(body.fields)
    IN  IF HasKey(d, k) THEN Lookup(d, k).v ELSE <<>>
MapField(body, k) ==
    LET d == Map(body.fields)
    IN  IF HasKey(d, k) THEN Map(Lookup(d, k).m) ELSE NilMap

\* json.Unmarshal(respBody, &node) with node a nil *GraphNode: null leaves
\* the pointer nil
UnmarshalNodeIntoPointer(body) ==
    IF JsonErr(body) # NilErr THEN [v |-> ZeroNode, err |-> JsonErr(body)]
    ELSE IF body.json = "null" THEN [v |-> NULL, err |-> NilErr]
    ELSE IF body.json # "object" THEN [v |-> ZeroNode, err |-> GoErr(TypeErr)]
    ELSE IF ~(/\ FieldIs(body, "id", "number")
              /\ FieldIs(body, "labels", "array")
              /\ FieldIs(body, "properties", "object"))
        THEN [v |-> ZeroNode, err |-> GoErr(TypeErr)]
    ELSE [v |-> [ID |-> IntField(body, "id"),
                 Labels |-> SliceField(body, "labels"),
                 Properties |-> MapField(body, "properties")],
          err |-> NilErr]

\* json.Unmarshal(respBody, &node) with node a zero GraphNode
UnmarshalNode(body) ==
    IF JsonErr(body) # NilErr THEN [v |-> ZeroNode, err |-> JsonErr(body)]
    ELSE IF body.json = "null" THEN [v |-> ZeroNode, err |-> NilErr]
    ELSE IF body.json # "object" THEN [v |-> ZeroNode, err |-> GoErr(TypeErr)]
    ELSE IF ~(/\ FieldIs(body, "id", "number")
              /\ FieldIs(body, "labels", "array")
              /\ FieldIs(body, "properties", "object"))
        THEN [v |-> ZeroNode, err |-> GoErr(TypeErr)]
    ELSE [v |-> [ID |-> IntField(body, "id"),
                 Labels |-> SliceField(body, "labels"),
                 Properties |-> MapField(body, "properties")],
          err |-> NilErr]

\* json.Unmarshal(respBody, &edge) with edge a zero GraphEdge
UnmarshalEdge(body) ==
    IF JsonErr(body) # NilErr THEN [v |-> ZeroEdge, err |-> JsonErr(body)]
    ELSE IF body.json = "null" THEN [v |-> ZeroEdge, err |-> NilErr]
    ELSE IF body.json # "object" THEN [v |-> ZeroEdge, err |-> GoErr(TypeErr)]
    ELSE IF ~(/\ FieldIs(body, "id", "number")
              /\ FieldIs(body, "source", "number")
              /\ FieldIs(body, "target", "number")
              /\ FieldIs(body, "type", "string")
              /\ FieldIs(body, "properties", "object"))
        THEN [v |-> ZeroEdge, err |-> GoErr(TypeErr)]
    ELSE [v |-> [ID |-> IntField(body, "id"),
                 Properties |-> MapField(body, "properties"),
                 Source |-> IntField(body, "source"),
                 Target |-> IntField(body, "target"),
                 Type |-> StringField(body, "type")],
          err |-> NilErr]

\* json.Unmarshal into a result struct of an algorithm, or into the nil map
\* of GetStatistics: the fields the body has
UnmarshalFields(body) ==
    IF JsonErr(body) # NilErr THEN [v |-> NilMap, err |-> JsonErr(body)]
    ELSE IF body.json = "null" THEN [v |-> NilMap, err |-> NilErr]
    ELSE IF body.json # "object" THEN [v |-> NilMap, err |-> GoErr(TypeErr)]
    ELSE [v |-> Map(body.fields), err |-> NilErr]

\* json.Unmarshal(respBody, &result) with result a nil interface{}
UnmarshalAny(body) ==
    IF JsonErr(body) # NilErr THEN [v |-> NULL, err |-> JsonErr(body)]
    ELSE IF body.json = "null" THEN [v |-> NULL, err |-> NilErr]
    ELSE [v |-> body, err |-> NilErr]

----------------------------------------------------------------------------
(* Operations *)

\* the operations of the basic application
Ops == {"Health", "GetNode", "CreateNode", "DeleteNode"}

\* the node operations that decode a GraphNode
NodeOps == {"GetNode", "CreateNode", "UpdateNode"}

\* the edge operations that decode a GraphEdge
EdgeOps == {"GetEdge", "CreateEdge", "UpdateEdge"}

\* the operations that return makeRequest's error alone
DeleteOps == {"DeleteNode", "DeleteEdge"}

\* the algorithm operations
AlgorithmOps == {"RunBFS", "RunDijkstra", "RunPageRank"}

\* every exported operation of the client
AllOps ==
    {"Health", "Query", "GetStatistics"}
        \cup NodeOps \cup EdgeOps \cup DeleteOps \cup AlgorithmOps

\* the arguments of an operation that the claims speak of; an operation
\* reads the ones in its signature
NoArgs ==
    [id |-> 0, properties |-> NilMap, source |-> 0, target |-> 0,
     etype |-> <<>>]
ValidArgs ==
    [id |-> 1, properties |-> Map({}), source |-> 1, target |-> 2,
     etype |-> <<"KNOWS">>]

\* a properties mapping that holds a channel
ChanProperties == Map({<<"ch", Value("Chan")>>})

Method(o) ==
    CASE o \in {"Health", "GetNode", "GetEdge", "GetStatistics"} -> "GET"
      [] o \in {"UpdateNode", "UpdateEdge"} -> "PUT"
      [] o \in DeleteOps -> "DELETE"
      [] OTHER -> "POST"

\* the endpoint the operation passes to makeRequest
Endpoint(o, a) ==
    CASE o = "Health" -> <<"/", "health">>
      [] o \in {"GetNode", "UpdateNode", "DeleteNode"} ->
            <<"/", "nodes", "/", ToString(a.id)>>
      [] o = "CreateNode" -> <<"/", "nodes">>
      [] o \in {"GetEdge", "UpdateEdge", "DeleteEdge"} ->
            <<"/", "edges", "/", ToString(a.id)>>
      [] o = "CreateEdge" -> <<"/", "edges">>
      [] o = "RunBFS" -> <<"/", "algorithms", "/", "bfs">>
      [] o = "RunDijkstra" -> <<"/", "algorithms", "/", "dijkstra">>
      [] o = "RunPageRank" -> <<"/", "algorithms", "/", "pagerank">>
      [] o = "Query" -> <<"/", "query">>
      [] o = "GetStatistics" -> <<"/", "statistics">>

\* whether the operation passes a non-nil data to makeRequest
HasData(o) ==
    o \in {"CreateNode", "UpdateNode", "CreateEdge", "UpdateEdge", "Query"}
        \cup AlgorithmOps

\* the operations whose data holds a mapping the caller passed
PropertyOps == {"CreateNode", "UpdateNode", "CreateEdge", "UpdateEdge", "Query"}

\* the params every operation passes to makeRequest: nil
Params(o) == {}

\* url.Parse accepts the address: no token is a malformed percent escape
Parses(url) == \A i \in 1 .. Len(url) : url[i] # "%zz"
ParseErr == <<"parse: invalid URL escape \"%zz\"">>

\* json.Marshal accepts a mapping: none of its values is of a kind that has
\* no JSON encoding
Marshals(d) ==
    \A p \in d.m :
        p[2].kind \notin
            {"Chan", "Func", "Complex64", "Complex128", "UnsafePointer"}
MarshalErr == <<"json: unsupported type">>

----------------------------------------------------------------------------
(* Inputs *)

RECURSIVE SeqsUpTo(_, _)
SeqsUpTo(S, n) ==
    IF n = 0 THEN {<<>>}
    ELSE LET shorter == SeqsUpTo(S, n - 1)
         IN  shorter \cup {Append(q, x) : q \in shorter, x \in S}

BaseURLs == SeqsUpTo({"h", "/"}, MaxUrlLen)
Timeouts == {0, 5}
RetryDelays == {0, 2}
CustomHTTPClient == [Timeout |-> 0, own |-> FALSE, CheckRedirect |-> NULL]

\* a server that answers every request itself, and the servers there are:
\* one may answer with a 3xx status and a Location header
PlainServer == [redirects |-> FALSE]
Servers == [redirects : BOOLEAN]

ConfigInputs ==
    [BaseURL : {<<"h">>, <<"h", "/">>},
     Timeout : Timeouts,
     MaxRetries : -1 .. MaxRetriesBound,
     RetryDelay : RetryDelays,
     SkipValidation : BOOLEAN,
     HTTPClient : {NULL, CustomHTTPClient}]

NoReturn == [err |-> NoError, body |-> NoBody]

\* no response: Do returned an error
NoResp ==
    [code |-> 0, body |-> NoBody, readable |-> FALSE, followed |-> FALSE]

\* nothing met yet: fail counts the attempts where Do or ReadAll returned an
\* error, redir the 3xx answers, lastFail is the error of the last such
\* attempt, last the last answer of Do, late the time slept after the
\* call's context was done, bodyless the attempts whose Do found the body
\* reader empty
NoHist ==
    [fail |-> 0, redir |-> 0, lastFail |-> NilErr, last |-> NoResp,
     late |-> 0, bodyless |-> 0]

InitCalls ==
    /\ lib = NoLib
    /\ ncPc = "start"
    /\ client = NULL
    /\ ncRet = [client |-> NULL, err |-> NoError]
    /\ pc = [c \in CallIds |-> "idle"]
    /\ op = [c \in CallIds |-> "Health"]
    /\ arg = [c \in CallIds |-> NoArgs]
    /\ reqURL = [c \in CallIds |-> <<>>]
    /\ reqBody = [c \in CallIds |-> "none"]
    /\ attempt = [c \in CallIds |-> 0]
    /\ lastErr = [c \in CallIds |-> NilErr]
    /\ sent = [c \in CallIds |-> 0]
    /\ waited = [c \in CallIds |-> 0]
    /\ ctxDone = [c \in CallIds |-> FALSE]
    /\ mr = [c \in CallIds |-> NoReturn]
    /\ hist = [c \in CallIds |-> NoHist]

\* any configuration, one goroutine using the client
Init ==
    /\ cfgIn \in ConfigInputs \cup {NULL}
    /\ callers = {"g1"}
    /\ appOps = Ops
    /\ appArgs = {ValidArgs}
    /\ server \in Servers
    /\ InitCalls

\* any base address up to MaxUrlLen tokens, one goroutine using the client
InitURL ==
    /\ cfgIn \in [BaseURL : BaseURLs,
                  Timeout : {5},
                  MaxRetries : {1},
                  RetryDelay : {0},
                  SkipValidation : BOOLEAN,
                  HTTPClient : {NULL}]
    /\ callers = {"g1"}
    /\ appOps = Ops
    /\ appArgs = {ValidArgs}
    /\ server = PlainServer
    /\ InitCalls

\* two goroutines sharing the client
InitConc ==
    /\ cfgIn \in {cfg \in ConfigInputs :
                    /\ cfg.BaseURL = <<"h">>
                    /\ cfg.Timeout = 5
                    /\ cfg.RetryDelay = 2
                    /\ cfg.HTTPClient = NULL}
    /\ callers = UserCalls
    /\ appOps = {"GetNode"}
    /\ appArgs = {ValidArgs}
    /\ server = PlainServer
    /\ InitCalls

EdgeTypes == {<<>>, <<"KNOWS">>}

\* the arguments an application passes, valid or not
ArgInputs ==
    [id : {-1, 1}, properties : {Map({})}, source : {-1, 1},
     target : {-1, 2}, etype : EdgeTypes]

\* one configuration, every operation, valid and invalid arguments
InitOps ==
    /\ cfgIn \in {cfg \in ConfigInputs :
                    /\ cfg.BaseURL = <<"h">>
                    /\ cfg.Timeout = 5
                    /\ cfg.MaxRetries = 1
                    /\ cfg.RetryDelay = 0
                    /\ ~cfg.SkipValidation
                    /\ cfg.HTTPClient = NULL}
    /\ callers = {"g1"}
    /\ appOps = AllOps
    /\ appArgs = ArgInputs
    /\ server = PlainServer
    /\ InitCalls

\* the configuration of examples/fiber-nendb: RetryDelay and the other
\* fields it does not name are zero
ExampleConfig ==
    [BaseURL |-> DefaultBaseURL,
     Timeout |-> 30,
     MaxRetries |-> 3,
     RetryDelay |-> 0,
     SkipValidation |-> FALSE,
     HTTPClient |-> NULL]

\* the example application
InitExample ==
    /\ cfgIn = ExampleConfig
    /\ callers = {"g1"}
    /\ appOps = Ops
    /\ appArgs = {ValidArgs}
    /\ server = PlainServer
    /\ InitCalls

\* a base address that parses or not, every operation, properties that
\* serialise or not
InitBuild ==
    /\ cfgIn \in [BaseURL : {<<"h">>, <<"%zz">>},
                  Timeout : {5},
                  MaxRetries : {1},
                  RetryDelay : {2},
                  SkipValidation : BOOLEAN,
                  HTTPClient : {NULL}]
    /\ callers = {"g1"}
    /\ appOps = AllOps
    /\ appArgs = {ValidArgs, [ValidArgs EXCEPT !.properties = ChanProperties]}
    /\ server = PlainServer
    /\ InitCalls

----------------------------------------------------------------------------
(* makeRequest *)

\* makeRequest that goes on with a nil body when json.Marshal fails
BuildErrorIgnoresMarshal(url, o, a) ==
    IF Cardinality(Params(o)) > 0 /\ ~Parses(url)
        THEN NewValidationError(<<"Invalid URL">>,
                Map({<<"url", Str(url)>>, <<"error", Str(ParseErr)>>}))
    ELSE IF ~Parses(url)
        THEN NewValidationError(<<"Failed to create request">>,
                Map({<<"error", Str(ParseErr)>>}))
    ELSE NoError

\* the error of makeRequest's code before the loop: url.Parse (with params
\* only), json.Marshal (with data only), http.NewRequestWithContext
BuildError(url, o, a) ==
    IF Cardinality(Params(o)) > 0 /\ ~Parses(url)
        THEN NewValidationError(<<"Invalid URL">>,
                Map({<<"url", Str(url)>>, <<"error", Str(ParseErr)>>}))
    ELSE IF HasData(o) /\ o \in PropertyOps /\ ~Marshals(a.properties)
        THEN NewValidationError(<<"Failed to marshal request data">>,
                Map({<<"error", Str(MarshalErr)>>}))
    ELSE IF ~Parses(url)
        THEN NewValidationError(<<"Failed to create request">>,
                Map({<<"error", Str(ParseErr)>>}))
    ELSE NoError

\* makeRequest up to the retry loop: the URL, the body, the request object
BeginRequest(c, o, a, cl, done) ==
    LET url == cl.baseURL \o Endpoint(o, a)
        err == BuildError(url, o, a)
    IN  /\ pc' = [pc EXCEPT ![c] = IF err = NoError THEN "loop" ELSE "done"]
        /\ op' = [op EXCEPT ![c] = o]
        /\ arg' = [arg EXCEPT ![c] = a]
        /\ reqURL' = [reqURL EXCEPT ![c] = url]
        /\ reqBody' = [reqBody EXCEPT
                         ![c] = IF HasData(o) /\ err = NoError
                                   THEN "unread" ELSE "none"]
        /\ attempt' = [attempt EXCEPT ![c] = 0]
        /\ lastErr' = [lastErr EXCEPT ![c] = NilErr]
        /\ sent' = [sent EXCEPT ![c] = 0]
        /\ waited' = [waited EXCEPT ![c] = 0]
        /\ ctxDone' = [ctxDone EXCEPT ![c] = done]
        /\ mr' = [mr EXCEPT ![c] = [err |-> err, body |-> NoBody]]
        /\ hist' = [hist EXCEPT ![c] = NoHist]

\* the loop condition with < in place of <=
LoopCondStrict(a, cfg) == a < cfg.MaxRetries

\* the loop condition of makeRequest
LoopCond(a, cfg) == a <= cfg.MaxRetries

\* success narrowed to 200 alone
IsSuccessOnly200(code) == code = 200

\* resp.StatusCode >= 200 && resp.StatusCode < 300
IsSuccess(code) == code >= 200 /\ code < 300

\* only 4xx taken as an error answer, 5xx left to the retry path
IsErrorStatusOnly4xx(code) == code >= 400 /\ code < 500

\* resp.StatusCode >= 400
IsErrorStatus(code) == code >= 400

\* a return statement of makeRequest
Finish(c, body, err) ==
    /\ pc' = [pc EXCEPT ![c] = "done"]
    /\ mr' = [mr EXCEPT ![c] = [err |-> err, body |-> body]]
    /\ UNCHANGED <<attempt, lastErr>>
    /\ UNCHANGED clientVars

\* `continue` that takes the retry out of a budget kept in the client
ContinueConsumesBudget(c, err) ==
    /\ lastErr' = [lastErr EXCEPT ![c] = err]
    /\ attempt' = [attempt EXCEPT ![c] = attempt[c] + 1]
    /\ pc' = [pc EXCEPT ![c] = "loop"]
    /\ client' = [client EXCEPT !.config.MaxRetries = @ - 1]
    /\ UNCHANGED <<mr, cfgIn, callers, appOps, appArgs, server, lib, ncPc, ncRet>>

\* `continue` with lastErr kept in one place for every call
ContinueSharedErr(c, err) ==
    /\ lastErr' = [d \in CallIds |-> err]
    /\ attempt' = [attempt EXCEPT ![c] = attempt[c] + 1]
    /\ pc' = [pc EXCEPT ![c] = "loop"]
    /\ UNCHANGED mr
    /\ UNCHANGED clientVars

\* `continue` that records an error only while none is recorded
ContinueKeepsFirstErr(c, err) ==
    /\ lastErr' = [lastErr EXCEPT ![c] = IF lastErr[c].nil THEN err ELSE @]
    /\ attempt' = [attempt EXCEPT ![c] = attempt[c] + 1]
    /\ pc' = [pc EXCEPT ![c] = "loop"]
    /\ UNCHANGED mr
    /\ UNCHANGED clientVars

\* `continue`: record the attempt's error and go to the next iteration
Continue(c, err) ==
    /\ lastErr' = [lastErr EXCEPT ![c] = err]
    /\ attempt' = [attempt EXCEPT ![c] = attempt[c] + 1]
    /\ pc' = [pc EXCEPT ![c] = "loop"]
    /\ UNCHANGED mr
    /\ UNCHANGED clientVars

\* fmt.Errorf("unexpected status code: %d", resp.StatusCode)
StatusErr(code) == GoErr(<<"unexpected status code: ", ToString(code)>>)

\* fmt.Sprintf("HTTP %d: %s", resp.StatusCode, resp.Status)
HTTPMessage(code) == <<"HTTP ", ToString(code), ": ", Status(code)>>

\* the message field taken whatever its JSON type
ErrorResponseAnyMessage(code, body) ==
    LET parsed == UnmarshalMap(body)
    IN  IF ~parsed.err
            THEN NewResponseError(
                    IF HasKey(parsed.v, "message")
                        THEN Lookup(parsed.v, "message").v
                        ELSE HTTPMessage(code),
                    parsed.v)
            ELSE NewResponseError(HTTPMessage(code), NilMap)

\* the error makeRequest returns for a status >= 400
ErrorResponse(code, body) ==
    LET parsed == UnmarshalMap(body)
        isStr == HasKey(parsed.v, "message")
                    /\ Lookup(parsed.v, "message").t = "string"
    IN  IF ~parsed.err
            THEN NewResponseError(
                    IF isStr THEN Lookup(parsed.v, "message").v
                             ELSE HTTPMessage(code),
                    parsed.v)
            ELSE NewResponseError(HTTPMessage(code), NilMap)

\* the exhaustion error without the last error
ExhaustedErrorNoDetails(last) ==
    NewTimeoutError(<<"Request failed after all retries">>, NilMap)

\* the error makeRequest returns after the loop
ExhaustedError(last) ==
    IF ~last.nil
        THEN NewTimeoutError(<<"Request failed after all retries">>,
                             Map({<<"error", Str(last.text)>>}))
        ELSE NewTimeoutError(<<"Request failed after all retries">>, NilMap)

\* the loop condition is false: the code after the loop
Exhausted(c) ==
    /\ pc[c] = "loop"
    /\ ~LoopCond(attempt[c], client.config)
    /\ Finish(c, NoBody, ExhaustedError(lastErr[c]))
    /\ UNCHANGED <<op, arg, reqURL, reqBody, sent, waited, ctxDone, hist>>

\* the same delay before every retry
BackoffDelayConstant(cfg, a) == cfg.RetryDelay

\* c.config.RetryDelay * time.Duration(attempt)
BackoffDelay(cfg, a) == cfg.RetryDelay * a

\* time.Sleep(c.config.RetryDelay * time.Duration(attempt))
Backoff(c) ==
    /\ pc[c] = "loop"
    /\ LoopCond(attempt[c], client.config)
    /\ attempt[c] > 0
    /\ waited' = [waited EXCEPT
                    ![c] = waited[c] + BackoffDelay(client.config, attempt[c])]
    /\ hist' = [hist EXCEPT
                  ![c].late = IF ctxDone[c]
                                 THEN @ + BackoffDelay(client.config, attempt[c])
                                 ELSE @]
    /\ pc' = [pc EXCEPT ![c] = "send"]
    /\ UNCHANGED <<op, arg, reqURL, reqBody, attempt, lastErr, sent, ctxDone, mr>>
    /\ UNCHANGED clientVars

\* a retry started while the attempt before it is still in flight
AtDoHedged(c) ==
    \/ pc[c] = "send"
    \/ /\ pc[c] = "loop"
       /\ LoopCond(attempt[c], client.config)
       /\ ~(attempt[c] > 0)
    \/ /\ pc[c] = "inflight"
       /\ LoopCond(sent[c], client.config)

\* control is at c.httpClient.Do(req): after the Sleep of a retry, or at the
\* top of the first iteration
AtDo(c) ==
    \/ pc[c] = "send"
    \/ /\ pc[c] = "loop"
       /\ LoopCond(attempt[c], client.config)
       /\ ~(attempt[c] > 0)

\* c.httpClient.Do(req) is called
Send(c) ==
    /\ AtDo(c)
    /\ pc' = [pc EXCEPT ![c] = "inflight"]
    /\ sent' = [sent EXCEPT ![c] = sent[c] + 1]
    /\ UNCHANGED <<op, arg, reqURL, reqBody, attempt, lastErr, waited, ctxDone, mr,
                   hist>>
    /\ UNCHANGED clientVars

\* the ways Do returns an error: "dial", the server was not reached or ctx
\* is done; "late", the request was written and no answer came; "body", the
\* body reader a previous attempt has read is empty and the transport, on a
\* fresh connection, does not rewind it
DoErrors(c) ==
    {"dial", "late"} \cup
        (IF reqBody[c] = "drained" /\ ~ctxDone[c] THEN {"body"} ELSE {})

\* Do returns an error
DoFails(c, how) ==
    /\ pc[c] = "inflight"
    /\ how \in DoErrors(c)
    /\ LET err == IF how = "body" THEN BodyErr
                  ELSE IF ctxDone[c] THEN CtxErr ELSE NetErr
       IN  /\ Continue(c, err)
           /\ hist' = [hist EXCEPT ![c].fail = @ + 1,
                                   ![c].lastFail = err,
                                   ![c].last = NoResp,
                                   ![c].bodyless =
                                       IF how = "body" THEN @ + 1 ELSE @]
    /\ reqBody' = [reqBody EXCEPT
                     ![c] = IF how = "late" /\ @ = "unread"
                               THEN "drained" ELSE @]
    /\ UNCHANGED <<op, arg, reqURL, sent, waited, ctxDone>>

\* http.Client.Do follows a 3xx answer that carries a Location header
\* unless its CheckRedirect says otherwise
FollowsRedirects(hc) == hc.CheckRedirect = NULL

\* Do returns a response; the rest of the loop body. followed: the server
\* first answered with a redirect, Do requested the Location it named, and
\* this is the answer from there
Respond(c, code, readable, body, followed) ==
    /\ pc[c] = "inflight"
    /\ ~ctxDone[c]
    /\ followed => (server.redirects /\ FollowsRedirects(client.httpClient))
    /\ LET resp == [code |-> code, body |-> body, readable |-> readable,
                    followed |-> followed]
       IN  IF ~readable
              THEN /\ Continue(c, ReadErr)
                   /\ hist' = [hist EXCEPT ![c].fail = @ + 1,
                                           ![c].lastFail = ReadErr,
                                           ![c].last = resp]
           ELSE IF IsSuccess(code)
              THEN /\ Finish(c, body, NoError)
                   /\ hist' = [hist EXCEPT ![c].last = resp]
           ELSE IF IsErrorStatus(code)
              THEN /\ Finish(c, NoBody, ErrorResponse(code, body))
                   /\ hist' = [hist EXCEPT ![c].last = resp]
           ELSE /\ Continue(c, StatusErr(code))
                /\ hist' = [hist EXCEPT ![c].redir = @ + 1,
                                        ![c].lastFail = StatusErr(code),
                                        ![c].last = resp]
    /\ reqBody' = [reqBody EXCEPT ![c] = IF @ = "unread" THEN "drained" ELSE @]
    /\ UNCHANGED <<op, arg, reqURL, sent, waited, ctxDone>>

\* the context of the call is cancelled, or its deadline passes
CtxCancel(c) ==
    /\ pc[c] \in {"loop", "send", "inflight"}
    /\ ~ctxDone[c]
    /\ ctxDone' = [ctxDone EXCEPT ![c] = TRUE]
    /\ UNCHANGED <<pc, op, arg, reqURL, reqBody, attempt, lastErr, sent, waited, mr,
                   hist>>
    /\ UNCHANGED clientVars

----------------------------------------------------------------------------
(* NewClient and the operations *)

\* the NenDBClient NewClient builds from its config argument
BuildClient(config) ==
    LET cfg == IF config = NULL THEN DefaultConfig ELSE config
    IN  [baseURL |-> TrimRight(cfg.BaseURL, "/"),
         config |-> cfg,
         httpClient |-> IF cfg.HTTPClient = NULL
                           THEN [Timeout |-> cfg.Timeout, own |-> TRUE,
                                 CheckRedirect |-> NULL]
                           ELSE cfg.HTTPClient]

\* the frame of a call is popped: its locals are gone
ResetCall(c) ==
    /\ pc' = [pc EXCEPT ![c] = "idle"]
    /\ op' = [op EXCEPT ![c] = "Health"]
    /\ arg' = [arg EXCEPT ![c] = NoArgs]
    /\ reqURL' = [reqURL EXCEPT ![c] = <<>>]
    /\ reqBody' = [reqBody EXCEPT ![c] = "none"]
    /\ attempt' = [attempt EXCEPT ![c] = 0]
    /\ lastErr' = [lastErr EXCEPT ![c] = NilErr]
    /\ sent' = [sent EXCEPT ![c] = 0]
    /\ waited' = [waited EXCEPT ![c] = 0]
    /\ ctxDone' = [ctxDone EXCEPT ![c] = FALSE]
    /\ mr' = [mr EXCEPT ![c] = NoReturn]
    /\ hist' = [hist EXCEPT ![c] = NoHist]

\* the probe run whatever SkipValidation says
ShouldProbeAlways(cfg) == TRUE

\* NewClient validates the connection if not skipped
ShouldProbe(cfg) == ~cfg.SkipValidation

\* context.WithTimeout(context.Background(), d) is already expired
ExpiredAtStart(d) == d <= 0

\* the client handed out together with the connection error
NewClientResultKeepsClient(cl, err) ==
    IF err # NoError
        THEN [client |-> cl,
              err |-> NewConnectionError(
                 <<"Failed to connect to NenDB server at ">> \o cl.baseURL,
                 Map({<<"error", Str(Error(err.e))>>}))]
        ELSE [client |-> cl, err |-> NoError]

\* what NewClient returns once client.Health() returned err
NewClientResult(cl, err) ==
    IF err # NoError
        THEN [client |-> NULL,
              err |-> NewConnectionError(
                 <<"Failed to connect to NenDB server at ">> \o cl.baseURL,
                 Map({<<"error", Str(Error(err.e))>>}))]
        ELSE [client |-> cl, err |-> NoError]

\* NewClient up to the health probe (or to its return when skipped)
NewClientStart ==
    /\ ncPc = "start"
    /\ LET cl == BuildClient(cfgIn)
       IN  /\ client' = cl
           /\ IF ShouldProbe(cl.config)
                 THEN /\ BeginRequest(Probe, "Health", NoArgs, cl,
                                      ExpiredAtStart(cl.config.Timeout))
                      /\ ncPc' = "probe"
                      /\ UNCHANGED ncRet
                 ELSE /\ ncPc' = "returned"
                      /\ ncRet' = [client |-> cl, err |-> NoError]
                      /\ UNCHANGED callVars
    /\ UNCHANGED <<cfgIn, callers, appOps, appArgs, server, lib>>

\* NewClient after client.Health() returned
NewClientReturn ==
    /\ ncPc = "probe"
    /\ pc[Probe] = "done"
    /\ ncPc' = "returned"
    /\ ncRet' = NewClientResult(client, mr[Probe].err)
    /\ ResetCall(Probe)
    /\ UNCHANGED <<cfgIn, callers, appOps, appArgs, server, lib, client>>

\* the message of the response error an operation builds when decoding fails
ParseMessage(o) ==
    CASE o \in NodeOps -> <<"Failed to parse node response">>
      [] o \in EdgeOps -> <<"Failed to parse edge response">>
      [] o = "RunBFS" -> <<"Failed to parse BFS result">>
      [] o = "RunDijkstra" -> <<"Failed to parse Dijkstra result">>
      [] o = "RunPageRank" -> <<"Failed to parse PageRank result">>
      [] o = "Query" -> <<"Failed to parse query result">>
      [] o = "GetStatistics" -> <<"Failed to parse statistics">>

\* json.Unmarshal into the variable the operation declares
Unmarshal(o, body) ==
    CASE o \in NodeOps -> UnmarshalNode(body)
      [] o \in EdgeOps -> UnmarshalEdge(body)
      [] o = "Query" -> UnmarshalAny(body)
      [] OTHER -> UnmarshalFields(body)

\* the operations that return an error alone
ErrorOnlyOps == DeleteOps \cup {"Health"}

\* an operation that hands out whatever was decoded together with the
\* decoding error
OpResultKeepsPartial(o, r) ==
    IF r.err # NoError THEN [err |-> r.err, result |-> NULL]
    ELSE IF o \in ErrorOnlyOps THEN [err |-> NoError, result |-> NULL]
    ELSE LET d == Unmarshal(o, r.body)
         IN  IF d.err # NilErr
                THEN [err |-> NewResponseError(ParseMessage(o),
                                 Map({<<"error", Str(d.err.text)>>})),
                      result |-> d.v]
                ELSE [err |-> NoError, result |-> d.v]

\* an operation that returns json.Unmarshal's error as it is
OpResultRawDecodeErr(o, r) ==
    IF r.err # NoError THEN [err |-> r.err, result |-> NULL]
    ELSE IF o \in ErrorOnlyOps THEN [err |-> NoError, result |-> NULL]
    ELSE LET d == Unmarshal(o, r.body)
         IN  IF d.err # NilErr
                THEN [err |-> d.err, result |-> NULL]
                ELSE [err |-> NoError, result |-> d.v]

\* what the operation returns once makeRequest returned r = (body, err)
OpResult(o, r) ==
    IF r.err # NoError THEN [err |-> r.err, result |-> NULL]
    ELSE IF o \in ErrorOnlyOps THEN [err |-> NoError, result |-> NULL]
    ELSE LET d == Unmarshal(o, r.body)
         IN  IF d.err # NilErr
                THEN [err |-> NewResponseError(ParseMessage(o),
                                 Map({<<"error", Str(d.err.text)>>})),
                      result |-> NULL]
                ELSE [err |-> NoError, result |-> d.v]

\* what the finished call c returns to its caller
OpReturn(c) == OpResult(op[c], mr[c])

\* the operations that return a result next to the error
PayloadOps == AllOps \ ErrorOnlyOps

\* the result the operation returned is nil: a nil pointer, a nil interface
\* value, or for GetStatistics a nil map
IsNilResult(o, result) ==
    result = NULL \/ (o = "GetStatistics" /\ result.nil)

\* an operation is called on the client NewClient returned
Call(c, o, a) ==
    /\ ncPc = "returned"
    /\ ncRet.client # NULL
    /\ c \in callers
    /\ o \in appOps
    /\ a \in appArgs
    /\ pc[c] = "idle"
    /\ BeginRequest(c, o, a, ncRet.client,
                    o = "Health" /\ ExpiredAtStart(ncRet.client.config.Timeout))
    /\ UNCHANGED clientVars

\* the operation returns to its caller
Return(c) ==
    /\ pc[c] = "done"
    /\ ResetCall(c)
    /\ UNCHANGED clientVars

Next ==
    \/ NewClientStart
    \/ NewClientReturn
    \/ \E c \in UserCalls, o \in AllOps : \E a \in appArgs : Call(c, o, a)
    \/ \E c \in UserCalls : Return(c)
    \/ \E c \in CallIds : Exhausted(c)
    \/ \E c \in CallIds : Backoff(c)
    \/ \E c \in CallIds : Send(c)
    \/ \E c \in CallIds, how \in {"dial", "late", "body"} : DoFails(c, how)
    \/ \E c \in CallIds, code \in Statuses :
            \E body \in BodiesOf(code), followed \in BOOLEAN :
                Respond(c, code, TRUE, body, followed)
    \/ \E c \in CallIds : Respond(c, 200, FALSE, NoBody, FALSE)
    \/ \E c \in CallIds : CtxCancel(c)

Spec == Init /\ [][Next]_vars

SpecURL == InitURL /\ [][Next]_vars

SpecConc == InitConc /\ [][Next]_vars

SpecOps == InitOps /\ [][Next]_vars

SpecExample == InitExample /\ [][Next]_vars

SpecBuild == InitBuild /\ [][Next]_vars

----------------------------------------------------------------------------
(* The application's calls into pkg/types and pkg/errors *)

Ids == -1 .. MaxId
LabelInputs == {NilSlice, Slice(<<>>), Slice(<<"Person">>)}
PropertyInputs == {NilMap, Map({}), Map({<<"name", Str(<<"Alice">>)>>})}
AlgorithmNames == {<<>>, <<"bfs">>}
Messages == {<<>>, <<"done">>}
DetailInputs == {NilMap, Map({}), Map({<<"code", Num(<<"42">>)>>})}
ErrorKinds == {"connection", "timeout", "validation", "algorithm", "response"}

\* struct values as a caller can hold them: built by a constructor, written
\* as a literal, or decoded
GraphNodes == [ID : Ids, Labels : LabelInputs, Properties : PropertyInputs]
GraphEdges ==
    [ID : Ids,
     Properties : PropertyInputs,
     Source : Ids,
     Target : Ids,
     Type : EdgeTypes]
AlgorithmResults ==
    [Message : Messages,
     Algorithm : AlgorithmNames,
     Status : AlgorithmStatuses,
     Metadata : PropertyInputs]

\* the variables of the client, which the two packages do not know
progVars == <<cfgIn, callers, appOps, appArgs, server, ncPc, client, ncRet>>

\* a call of fn with arguments in returned out
LibCall(fn, in, out) ==
    /\ lib' = [fn |-> fn, in |-> in, out |-> out]
    /\ UNCHANGED <<progVars, callVars>>

CallNewGraphNode(id, labels, properties) ==
    LibCall("NewGraphNode",
            [id |-> id, labels |-> labels, properties |-> properties],
            NewGraphNode(id, labels, properties))

CallGraphNodeValidate(n) ==
    LibCall("GraphNode.Validate", n, GraphNodeValidate(n))

CallNewGraphEdge(id, source, target, edgeType, properties) ==
    LibCall("NewGraphEdge",
            [id |-> id,
             properties |-> properties,
             source |-> source,
             target |-> target,
             edgeType |-> edgeType],
            NewGraphEdge(id, source, target, edgeType, properties))

CallGraphEdgeValidate(e) ==
    LibCall("GraphEdge.Validate", e, GraphEdgeValidate(e))

CallNewAlgorithmResult(algorithm, status, message, metadata) ==
    LibCall("NewAlgorithmResult",
            [message |-> message,
             algorithm |-> algorithm,
             status |-> status,
             metadata |-> metadata],
            NewAlgorithmResult(algorithm, status, message, metadata))

CallAlgorithmResultValidate(r) ==
    LibCall("AlgorithmResult.Validate", r, AlgorithmResultValidate(r))

CallIsValidPropertyValue(value) ==
    LibCall("IsValidPropertyValue", value, IsValidPropertyValue(value))

CallNew(message, details) ==
    LibCall("New", [message |-> message, details |-> details],
            New(message, details))

\* one of the five kind constructors
CallNewKindError(kind, message, details) ==
    LibCall("NewKindError",
            [message |-> message, details |-> details, kind |-> kind],
            CASE kind = "connection" -> NewConnectionError(message, details)
              [] kind = "timeout" -> NewTimeoutError(message, details)
              [] kind = "validation" -> NewValidationError(message, details)
              [] kind = "algorithm" -> NewAlgorithmError(message, details)
              [] kind = "response" -> NewResponseError(message, details))

\* an application that only uses the two packages
InitTypes ==
    /\ cfgIn = NULL
    /\ callers = {}
    /\ appOps = {}
    /\ appArgs = {}
    /\ server = PlainServer
    /\ InitCalls

NextTypes ==
    \/ \E id \in Ids, labels \in LabelInputs, properties \in PropertyInputs :
            CallNewGraphNode(id, labels, properties)
    \/ \E n \in GraphNodes : CallGraphNodeValidate(n)
    \/ \E id \in Ids, source \in Ids, target \in Ids, edgeType \in EdgeTypes,
          properties \in PropertyInputs :
            CallNewGraphEdge(id, source, target, edgeType, properties)
    \/ \E e \in GraphEdges : CallGraphEdgeValidate(e)
    \/ \E algorithm \in AlgorithmNames, status \in AlgorithmStatuses,
          message \in Messages, metadata \in PropertyInputs :
            CallNewAlgorithmResult(algorithm, status, message, metadata)
    \/ \E r \in AlgorithmResults : CallAlgorithmResultValidate(r)
    \/ \E value \in {NilValue} \cup {Value(k) : k \in Kinds} :
            CallIsValidPropertyValue(value)
    \/ \E message \in Messages, details \in DetailInputs :
            CallNew(message, details)
    \/ \E kind \in ErrorKinds, message \in Messages, details \in DetailInputs :
            CallNewKindError(kind, message, details)

SpecTypes == InitTypes /\ [][NextTypes]_vars

----------------------------------------------------------------------------
(* The retry loop *)

\* C1: with MaxRetries = N >= 0 no call sends more than N+1 attempts, and a
\* call whose every attempt failed at transport level ends after exactly N+1
\* attempts with a timeout-kind error.
C1_RetryBudget ==
    \A c \in CallIds :
        (pc[c] # "idle" /\ client.config.MaxRetries >= 0) =>
            /\ sent[c] <= client.config.MaxRetries + 1
            /\ (pc[c] = "done" /\ hist[c].fail = sent[c]) =>
                  /\ sent[c] = client.config.MaxRetries + 1
                  /\ mr[c].err.kind = "timeout"

\* a call with retries configured has used them all up on transport failures
C1_Witness ==
    \E c \in UserCalls :
        /\ pc[c] = "done"
        /\ client.config.MaxRetries >= 1
        /\ hist[c].fail = client.config.MaxRetries + 1
        /\ sent[c] = client.config.MaxRetries + 1
        /\ mr[c].err.kind = "timeout"

\* C2: once an attempt has received a 4xx or 5xx status the call is over with
\* a response-kind error and that attempt was its last, whatever budget is
\* left; a server answering 404 {"message":"not found"} from the start is
\* contacted once and the error's message is "not found".
C2_ErrorStatusEndsCall ==
    \A c \in CallIds :
        (hist[c].last.readable /\ hist[c].last.code >= 400) =>
            /\ pc[c] = "done"
            /\ mr[c].err.kind = "response"
            /\ sent[c] = hist[c].fail + hist[c].redir + 1
            /\ (hist[c].last.code = 404 /\ hist[c].last.body = ObjNotFound) =>
                  /\ mr[c].err.e.Message = <<"not found">>
                  /\ (hist[c].fail + hist[c].redir = 0) => sent[c] = 1

\* a 404 "not found" ended a call that had retries left
C2_Witness ==
    \E c \in UserCalls :
        /\ pc[c] = "done"
        /\ hist[c].last.code = 404
        /\ hist[c].last.body = ObjNotFound
        /\ client.config.MaxRetries = 2
        /\ sent[c] = 1
        /\ mr[c].err.kind = "response"
        /\ mr[c].err.e.Message = <<"not found">>

\* C3: once an attempt has received a 2xx status the call is over, it returns
\* that response's body and a nil error, and that attempt was its last: after
\* k retryable failures the call has made exactly k+1 attempts.
C3_SuccessEndsCall ==
    \A c \in CallIds :
        (hist[c].last.readable
            /\ hist[c].last.code >= 200 /\ hist[c].last.code < 300) =>
            /\ pc[c] = "done"
            /\ mr[c].err = NoError
            /\ mr[c].body = hist[c].last.body
            /\ hist[c].fail + hist[c].redir <= client.config.MaxRetries
            /\ sent[c] = hist[c].fail + hist[c].redir + 1

\* a call succeeded on its third attempt
C3_Witness ==
    \E c \in UserCalls :
        /\ pc[c] = "done"
        /\ hist[c].fail + hist[c].redir = 2
        /\ hist[c].last.code = 204
        /\ sent[c] = 3
        /\ mr[c].err = NoError

\* C4: once the context of a call that has made an attempt is done, the call
\* starts no further attempt and sleeps through no further backoff wait.
C4_ContextHonoured ==
    [][\A c \in CallIds :
            (ctxDone[c] /\ ctxDone'[c] /\ sent[c] >= 1) =>
                /\ sent'[c] = sent[c]
                /\ waited'[c] = waited[c]]_vars

----------------------------------------------------------------------------
(* NewClient *)

\* SkipValidation as NewClient sees it: a nil config means the default, false
SkipRequested == cfgIn # NULL /\ cfgIn.SkipValidation

\* C5: with SkipValidation=false NewClient runs Health (GET /health through
\* makeRequest) before it returns; when the probe fails it returns nil and a
\* connection-kind error, and it returns the client only after a 2xx answer.
C5_ProbeGuardsConstruction ==
    [][/\ (ncPc = "start" /\ ~SkipRequested) =>
              /\ ncPc' = "probe"
              /\ pc'[Probe] = "loop"
              /\ op'[Probe] = "Health"
              /\ Method(op'[Probe]) = "GET"
              /\ reqURL'[Probe] = client'.baseURL \o <<"/", "health">>
              /\ ncRet'.client = NULL
       /\ (ncPc = "probe" /\ ncPc' = "returned") =>
              /\ pc[Probe] = "done"
              /\ IF mr[Probe].err # NoError
                    THEN /\ ncRet'.client = NULL
                         /\ ncRet'.err.kind = "connection"
                    ELSE /\ ncRet'.client = client
                         /\ ncRet'.err = NoError
                         /\ hist[Probe].last.readable
                         /\ hist[Probe].last.code \in 200 .. 299
       /\ (ncPc # "returned" /\ ncPc' = "returned" /\ ~SkipRequested) =>
              ncPc = "probe"
      ]_vars

\* NewClient came back empty-handed from a failed probe
C5_Witness ==
    /\ ncPc = "returned"
    /\ ~SkipRequested
    /\ ncRet.client = NULL
    /\ ncRet.err.kind = "connection"

\* C6: with SkipValidation=true NewClient sends nothing and returns the
\* client with a nil error.
C6_SkipSendsNothing ==
    (SkipRequested /\ ncPc # "start") =>
        /\ ncPc = "returned"
        /\ ncRet.client # NULL
        /\ ncRet.client = client
        /\ ncRet.err = NoError
        /\ pc[Probe] = "idle"
        /\ sent[Probe] = 0

\* NewClient returned a client without probing
C6_Witness ==
    /\ SkipRequested
    /\ ncPc = "returned"
    /\ ncRet.client # NULL
    /\ sent[Probe] = 0

\* C7: every option the caller leaves unset (nil config, or a zero field of a
\* non-nil config) has its documented default in the client.
C7_DefaultsFilled ==
    client # NULL =>
        /\ client.config.Timeout =
              IF cfgIn = NULL \/ cfgIn.Timeout = 0
                 THEN DefaultTimeout ELSE cfgIn.Timeout
        /\ client.config.MaxRetries =
              IF cfgIn = NULL \/ cfgIn.MaxRetries = 0
                 THEN DefaultMaxRetries ELSE cfgIn.MaxRetries
        /\ client.config.RetryDelay =
              IF cfgIn = NULL \/ cfgIn.RetryDelay = 0
                 THEN DefaultRetryDelay ELSE cfgIn.RetryDelay
        /\ client.config.BaseURL =
              IF cfgIn = NULL \/ cfgIn.BaseURL = <<>>
                 THEN DefaultBaseURL ELSE cfgIn.BaseURL

\* C8: the stored base address is the configured one without its trailing
\* "/" tokens, and every request URL is the stored address followed by the
\* operation's path.
C8_BaseURLTrimmed ==
    client # NULL =>
        LET in == client.config.BaseURL
            stored == client.baseURL
        IN  /\ Len(stored) <= Len(in)
            /\ stored = SubSeq(in, 1, Len(stored))
            /\ \A i \in (Len(stored) + 1) .. Len(in) : in[i] = "/"
            /\ (Len(stored) > 0 => stored[Len(stored)] # "/")
            /\ \A c \in CallIds :
                  pc[c] # "idle" =>
                      /\ Len(reqURL[c]) = Len(stored) + Len(Endpoint(op[c], arg[c]))
                      /\ SubSeq(reqURL[c], 1, Len(stored)) = stored
                      /\ SubSeq(reqURL[c], Len(stored) + 1, Len(reqURL[c]))
                            = Endpoint(op[c], arg[c])

\* a request went out on a base address given with two trailing slashes
C8_Witness ==
    /\ client # NULL
    /\ client.config.BaseURL = <<"h", "/", "/">>
    /\ client.baseURL = <<"h">>
    /\ \E c \in UserCalls :
          pc[c] = "inflight" /\ reqURL[c] = <<"h", "/", "nodes", "/", "1">>

\* C9: once NewClient has returned, no step of any operation changes the
\* client (base address, configuration, transport handle), the configuration
\* it points to, or what NewClient returned.
C9_ClientImmutable ==
    [][ncPc = "returned" =>
          /\ client' = client
          /\ ncRet' = ncRet
          /\ cfgIn' = cfgIn]_vars

\* an operation failed after retries and the next one is under way
C9_Witness ==
    /\ ncPc = "returned"
    /\ ncRet.client = client
    /\ \E c \in UserCalls :
          /\ pc[c] = "done"
          /\ mr[c].err.kind = "timeout"
          /\ attempt[c] >= 2

----------------------------------------------------------------------------
(* Concurrent calls *)

\* what a call returns, told from what its own attempts met
OwnOutcome(h) ==
    IF h.last.readable /\ h.last.code >= 200 /\ h.last.code < 300
        THEN "nil"
    ELSE IF h.last.readable /\ h.last.code >= 400
        THEN "response"
    ELSE "timeout"

\* C10: under any interleaving of the calls on one client, the attempt
\* count, the retry budget, the recorded last error and the outcome of each
\* call are those its own attempts produce.
C10_CallsIndependent ==
    \A c \in UserCalls :
        pc[c] # "idle" =>
            /\ attempt[c] = hist[c].fail + hist[c].redir
            /\ lastErr[c] = hist[c].lastFail
            /\ sent[c] <= client.config.MaxRetries + 1
            /\ sent[c] = attempt[c] +
                  (IF pc[c] = "inflight"
                      \/ (pc[c] = "done" /\ OwnOutcome(hist[c]) # "timeout")
                   THEN 1 ELSE 0)
            /\ pc[c] = "done" =>
                  /\ mr[c].err.kind = OwnOutcome(hist[c])
                  /\ (mr[c].err.kind = "nil") => mr[c].body = hist[c].last.body
                  /\ (mr[c].err.kind = "timeout" /\ attempt[c] > 0) =>
                        mr[c].err.e.Details =
                            Map({<<"error", Str(hist[c].lastFail.text)>>})

\* two calls ran side by side and ended differently
C10_Witness ==
    /\ pc["g1"] = "done" /\ mr["g1"].err.kind = "timeout" /\ sent["g1"] = 3
    /\ pc["g2"] = "done" /\ mr["g2"].err.kind = "nil" /\ sent["g2"] = 2
    /\ lastErr["g1"] # lastErr["g2"]

----------------------------------------------------------------------------
(* Domain types *)

Constructors == {"NewGraphNode", "NewGraphEdge", "NewAlgorithmResult"}
Validators ==
    {"GraphNode.Validate", "GraphEdge.Validate", "AlgorithmResult.Validate"}

\* a hard rule is violated by the arguments of a constructor call
HardRuleViolated(fn, in) ==
    CASE fn = "NewGraphNode" -> in.id < 0
      [] fn = "NewGraphEdge" ->
            in.id < 0 \/ in.source < 0 \/ in.target < 0 \/ in.edgeType = <<>>
      [] fn = "NewAlgorithmResult" ->
            in.algorithm = <<>> \/ in.message = <<>>

\* the constructor applied to the field values of a struct value
Reconstructed(fn, v) ==
    CASE fn = "GraphNode.Validate" ->
            NewGraphNode(v.ID, v.Labels, v.Properties)
      [] fn = "GraphEdge.Validate" ->
            NewGraphEdge(v.ID, v.Source, v.Target, v.Type, v.Properties)
      [] fn = "AlgorithmResult.Validate" ->
            NewAlgorithmResult(v.Algorithm, v.Status, v.Message, v.Metadata)

\* a collection field of the struct value is nil
HasNilCollection(fn, v) ==
    CASE fn = "GraphNode.Validate" -> v.Labels.nil \/ v.Properties.nil
      [] fn = "GraphEdge.Validate" -> v.Properties.nil
      [] fn = "AlgorithmResult.Validate" -> v.Metadata.nil

\* C11: NewGraphNode, NewGraphEdge and NewAlgorithmResult fail with a
\* validation-kind error and no object exactly when a hard rule is violated,
\* and succeed otherwise.
C11_ConstructorsFailWithValidationKind ==
    lib.fn \in Constructors =>
        IF HardRuleViolated(lib.fn, lib.in)
            THEN /\ lib.out.obj = NULL
                 /\ KindOf(lib.out.err) = "validation"
            ELSE /\ lib.out.obj # NULL
                 /\ lib.out.err = NilErr

\* C12 as stated: Validate() fails exactly when the constructor would fail on
\* the same field values, so a nil collection is never a validation failure.
C12_ValidateAgreesWithConstructor ==
    lib.fn \in Validators =>
        (lib.out # NilErr <=> Reconstructed(lib.fn, lib.in).err # NilErr)

\* C12 amended: Validate() fails exactly when the constructor would fail on
\* the same field values or a collection field is nil; the constructors never
\* fail because of a nil collection.
C12_ValidateRejectsNilCollections ==
    /\ lib.fn \in Validators =>
          (lib.out # NilErr <=>
              \/ Reconstructed(lib.fn, lib.in).err # NilErr
              \/ HasNilCollection(lib.fn, lib.in))
    /\ lib.fn \in Constructors =>
          (lib.out.err # NilErr <=> HardRuleViolated(lib.fn, lib.in))

\* Validate() has refused a node whose only defect is a nil label list
C12_Witness ==
    /\ lib.fn = "GraphNode.Validate"
    /\ lib.in.ID >= 0
    /\ lib.in.Labels.nil
    /\ ~lib.in.Properties.nil
    /\ lib.out # NilErr

\* a collection argument as the constructors store it
OrEmptySlice(labels) == IF labels.nil THEN Slice(<<>>) ELSE labels
OrEmptyMap(properties) == IF properties.nil THEN Map({}) ELSE properties

\* the constructor's object re-validated
Revalidated(fn, obj) ==
    CASE fn = "NewGraphNode" -> GraphNodeValidate(obj)
      [] fn = "NewGraphEdge" -> GraphEdgeValidate(obj)
      [] fn = "NewAlgorithmResult" -> AlgorithmResultValidate(obj)

\* C13: on non-negative ids and well-formed inputs the constructors succeed,
\* the object holds the id and every field value unchanged (an absent
\* collection replaced by an empty one), and Validate() on it succeeds.
C13_ConstructorsRoundTrip ==
    (lib.fn \in Constructors /\ ~HardRuleViolated(lib.fn, lib.in)) =>
        /\ lib.out.err = NilErr
        /\ lib.fn = "NewGraphNode" =>
              /\ lib.out.obj.ID = lib.in.id
              /\ lib.out.obj.Labels = OrEmptySlice(lib.in.labels)
              /\ lib.out.obj.Properties = OrEmptyMap(lib.in.properties)
        /\ lib.fn = "NewGraphEdge" =>
              /\ lib.out.obj.ID = lib.in.id
              /\ lib.out.obj.Source = lib.in.source
              /\ lib.out.obj.Target = lib.in.target
              /\ lib.out.obj.Type = lib.in.edgeType
              /\ lib.out.obj.Properties = OrEmptyMap(lib.in.properties)
        /\ lib.fn = "NewAlgorithmResult" =>
              /\ lib.out.obj.Algorithm = lib.in.algorithm
              /\ lib.out.obj.Status = lib.in.status
              /\ lib.out.obj.Message = lib.in.message
              /\ lib.out.obj.Metadata = OrEmptyMap(lib.in.metadata)
        /\ Revalidated(lib.fn, lib.out.obj) = NilErr

\* a node was built from a nil label list and a nil property mapping
C13_Witness ==
    /\ lib.fn = "NewGraphNode"
    /\ lib.in.id >= 0
    /\ lib.in.labels.nil
    /\ lib.in.properties.nil
    /\ lib.out.obj # NULL

\* the classes of values the property-value rule names
ScalarKinds ==
    {"String", "Bool"}
        \cup {"Int" \o w : w \in {"", "8", "16", "32", "64"}}
        \cup {"Uint" \o w : w \in {"", "8", "16", "32", "64"}}
        \cup {"Float" \o w : w \in {"32", "64"}}

\* C14: IsValidPropertyValue is true exactly for an absent value, a string,
\* an integer of any signed or unsigned width, a float of any width and a
\* boolean, and false for every other kind of value.
C14_PropertyValueKinds ==
    lib.fn = "IsValidPropertyValue" =>
        (lib.out <=> (lib.in.nil \/ lib.in.kind \in ScalarKinds))

\* IsValidPropertyValue was asked about a string and accepted it
C14_Witness ==
    /\ lib.fn = "IsValidPropertyValue"
    /\ lib.in = Value("String")
    /\ lib.out

\* the NenDBError inside what New or a kind constructor returned
ErrorOf(l) == IF l.fn = "New" THEN l.out ELSE l.out.e

\* C15: every error built by New or a kind constructor carries the message
\* unchanged, a non-nil details mapping (empty when nil was passed) and a
\* non-zero time; Error() is the message alone when the details are empty
\* and "<message> - Details: <details>" otherwise.
C15_ErrorsCarryMessageDetailsTime ==
    lib.fn \in {"New", "NewKindError"} =>
        LET e == ErrorOf(lib)
        IN  /\ e.Message = lib.in.message
            /\ ~e.Details.nil
            /\ e.Details.m = lib.in.details.m
            /\ e.Time # ZeroTime
            /\ lib.fn = "NewKindError" => lib.out.kind = lib.in.kind
            /\ Error(e) = IF lib.in.details.m = {}
                             THEN lib.in.message
                             ELSE lib.in.message \o <<" - Details: ">>
                                     \o FmtMap(lib.in.details)

\* a kind constructor was given a nil details mapping
C15_Witness ==
    /\ lib.fn = "NewKindError"
    /\ lib.in.details.nil
    /\ lib.in.message # <<>>
    /\ ~lib.out.e.Details.nil

----------------------------------------------------------------------------
(* The typed operations *)

\* the operation reads an argument that breaks a rule of the domain types
DomainInvalid(o, a) ==
    \/ o \in {"GetNode", "UpdateNode", "DeleteNode",
              "GetEdge", "UpdateEdge", "DeleteEdge"} /\ a.id < 0
    \/ o = "CreateEdge" /\ (a.source < 0 \/ a.target < 0 \/ a.etype = <<>>)
    \/ o = "UpdateEdge" /\ a.etype = <<>>

\* C16: a typed operation called with a domain-invalid argument returns a
\* validation-kind error and sends no request to the server.
C16_InvalidArgumentsSendNothing ==
    \A c \in UserCalls :
        (pc[c] # "idle" /\ DomainInvalid(op[c], arg[c])) =>
            /\ sent[c] = 0
            /\ pc[c] = "done" => KindOf(OpReturn(c).err) = "validation"

WellFormedNode(n) ==
    n.ID >= 0 /\ ~n.Labels.nil /\ ~n.Properties.nil

WellFormedEdge(e) ==
    /\ e.ID >= 0 /\ e.Source >= 0 /\ e.Target >= 0
    /\ e.Type # <<>>
    /\ ~e.Properties.nil

\* C17: every node and edge an operation hands to its caller has
\* non-negative identifiers, non-nil labels and properties and, for an edge,
\* a non-empty type.
C17_DecodedEntitiesWellFormed ==
    \A c \in UserCalls :
        (pc[c] = "done" /\ OpReturn(c).err = NoError) =>
            /\ op[c] \in NodeOps => WellFormedNode(OpReturn(c).result)
            /\ op[c] \in EdgeOps => WellFormedEdge(OpReturn(c).result)

\* the bytes are JSON that fits the variable the operation decodes into
Decodable(o, body) ==
    \/ body.json = "null"
    \/ o = "Query" /\ body.json \in {"object", "array"}
    \/ /\ o \in NodeOps
       /\ body.json = "object"
       /\ FieldIs(body, "id", "number")
       /\ FieldIs(body, "labels", "array")
       /\ FieldIs(body, "properties", "object")
    \/ /\ o \in EdgeOps
       /\ body.json = "object"
       /\ FieldIs(body, "id", "number")
       /\ FieldIs(body, "source", "number")
       /\ FieldIs(body, "target", "number")
       /\ FieldIs(body, "type", "string")
       /\ FieldIs(body, "properties", "object")
    \/ o \in AlgorithmOps \cup {"GetStatistics"} /\ body.json = "object"

\* C18: a payload operation returns a response-kind error and no result when
\* makeRequest succeeded but the bytes do not decode, and makeRequest's error
\* unchanged with no result when it failed; DeleteNode and DeleteEdge return
\* exactly makeRequest's error and never decode the body.
C18_OperationsPassErrorsOn ==
    \A c \in UserCalls :
        pc[c] = "done" =>
            LET r == OpReturn(c)
            IN  /\ mr[c].err # NoError =>
                      r.err = mr[c].err /\ r.result = NULL
                /\ op[c] \in DeleteOps =>
                      r.err = mr[c].err /\ r.result = NULL
                /\ (/\ op[c] \notin ErrorOnlyOps
                    /\ mr[c].err = NoError
                    /\ ~Decodable(op[c], mr[c].body)) =>
                      KindOf(r.err) = "response" /\ r.result = NULL

\* GetNode got a 2xx answer whose id is a string and returned a response
\* error
C18_Witness ==
    /\ pc["g1"] = "done"
    /\ op["g1"] = "GetNode"
    /\ mr["g1"].err = NoError
    /\ mr["g1"].body = ObjBadId
    /\ KindOf(OpReturn("g1").err) = "response"
    /\ OpReturn("g1").result = NULL

----------------------------------------------------------------------------
(* Retries *)

\* C19: with the example's configuration (MaxRetries 3) a request that keeps
\* failing is attempted 3 times in total, and the delays between successive
\* attempts grow exponentially (RetryDelay, 2*RetryDelay, 4*RetryDelay, ...).
C19_ThreeAttemptsExponentialBackoff ==
    \A c \in CallIds :
        (pc[c] # "idle" /\ client.config.MaxRetries = 3) =>
            /\ sent[c] <= 3
            /\ pc[c] \in {"send", "inflight"} =>
                  waited[c] = client.config.RetryDelay * (2 ^ attempt[c] - 1)

\* the attempt that left this answer is one makeRequest retries: Do or
\* ReadAll returned an error, or the status is 3xx
Retryable(last) ==
    \/ ~last.readable
    \/ last.code >= 300 /\ last.code < 400

\* a retried attempt is never the one a success or a response-kind error
\* comes from: the call ends after one only with a timeout-kind error, and
\* only once the attempt index has passed MaxRetries
RetryableAttemptsRetried ==
    /\ [](\A c \in CallIds :
            (pc[c] = "done" /\ sent[c] > 0 /\ Retryable(hist[c].last)) =>
                /\ mr[c].err.kind = "timeout"
                /\ attempt[c] > client.config.MaxRetries)
    /\ [][\A c \in CallIds :
            (pc[c] = "inflight" /\ pc'[c] = "loop") =>
                /\ Retryable(hist'[c].last)
                /\ attempt'[c] = attempt[c] + 1
                /\ mr'[c] = mr[c]]_vars
    /\ [][\A c \in CallIds :
            (pc[c] = "loop" /\ pc'[c] = "done") =>
                attempt[c] > client.config.MaxRetries]_vars

\* no answer that reaches makeRequest was fetched by following a redirect
RedirectsNotFollowed ==
    \A c \in CallIds : ~hist[c].last.followed

\* C20: an attempt that ends in a transport error, an unreadable body or a
\* 3xx status is never returned as a success or a response-kind error: below
\* MaxRetries another attempt follows, the last one ends the call with a
\* timeout-kind error; a 3xx answer is treated as unexpected, not followed.
C20_RetryableAttemptsNeverReturned ==
    RetryableAttemptsRetried /\ []RedirectsNotFollowed

\* 0 + 1 + ... + n
Triangle(n) == (n * (n + 1)) \div 2

\* C21: no wait precedes the first attempt, the wait right before attempt
\* number k >= 1 is exactly RetryDelay * k, and a call that exhausts
\* MaxRetries = N has waited RetryDelay * N(N+1)/2 in total.
C21_LinearBackoff ==
    /\ [](\A c \in CallIds :
            pc[c] # "idle" =>
                /\ sent[c] = 0 => waited[c] = 0
                /\ waited[c] = client.config.RetryDelay *
                      Triangle(IF pc[c] = "send" THEN sent[c]
                                                 ELSE sent[c] - 1)
                /\ (/\ pc[c] = "done"
                    /\ mr[c].err.kind = "timeout"
                    /\ client.config.MaxRetries >= 0) =>
                      waited[c] = client.config.RetryDelay *
                                     Triangle(client.config.MaxRetries))
    /\ [][\A c \in CallIds :
            /\ waited'[c] # waited[c] =>
                  /\ sent[c] >= 1
                  /\ pc'[c] \in {"send", "idle"}
                  /\ pc'[c] = "send" =>
                        waited'[c] - waited[c] =
                            client.config.RetryDelay * sent[c]
            /\ (sent[c] = 0 /\ sent'[c] = 1) => waited[c] = 0]_vars

\* a call has used up two retries with a delay of 2: it waited 2 + 4
C21_Witness ==
    \E c \in UserCalls :
        /\ pc[c] = "done"
        /\ mr[c].err.kind = "timeout"
        /\ client.config.MaxRetries = 2
        /\ client.config.RetryDelay = 2
        /\ sent[c] = 3
        /\ waited[c] = 6

\* the attempts of a call that have finished: Do or ReadAll returned an error,
\* or the response was read and its status looked at
Finished(h) ==
    h.fail + h.redir +
        (IF h.last.readable /\ (IsSuccess(h.last.code) \/ IsErrorStatus(h.last.code))
            THEN 1 ELSE 0)

\* C22: within one call the attempts are strictly sequential: attempt k+1
\* starts only after attempt k has finished and the backoff wait has elapsed,
\* so at most one attempt of a call is in flight at any time.
C22_AttemptsSequential ==
    /\ [](\A c \in CallIds :
            pc[c] # "idle" =>
                sent[c] - Finished(hist[c]) = IF pc[c] = "inflight" THEN 1 ELSE 0)
    /\ [][\A c \in CallIds :
            /\ sent'[c] > sent[c] =>
                  /\ sent'[c] = sent[c] + 1
                  /\ pc[c] # "inflight"
                  /\ Finished(hist[c]) = sent[c]
                  /\ sent[c] >= 1 => pc[c] = "send"
            /\ (pc[c] # "send" /\ pc'[c] = "send") =>
                  /\ pc[c] = "loop"
                  /\ Finished(hist[c]) = sent[c]
                  /\ waited'[c] =
                        waited[c] + client.config.RetryDelay * attempt[c]]_vars

\* the third attempt of a call is in flight, the two before it have failed
C22_Witness ==
    \E c \in UserCalls :
        /\ pc[c] = "inflight"
        /\ sent[c] = 3
        /\ Finished(hist[c]) = 2
        /\ client.config.RetryDelay = 2
        /\ waited[c] = 6

\* the error of the attempt that left this answer, as the loop records it
AttemptError(last) ==
    IF last = NoResp THEN {NetErr, CtxErr, BodyErr}
    ELSE IF ~last.readable THEN {ReadErr}
    ELSE {StatusErr(last.code)}

\* C23: when all attempts of a call fail retryably, the timeout-kind error
\* returned has the message "Request failed after all retries" and its
\* details carry the error of the last attempt, not of an earlier one; the
\* details are empty only when no attempt error was recorded.
C23_ExhaustionCarriesLastError ==
    \A c \in CallIds :
        pc[c] = "done" =>
            /\ (sent[c] >= 1 /\ Retryable(hist[c].last)) =>
                  mr[c].err.kind = "timeout"
            /\ mr[c].err.kind = "timeout" =>
                  /\ mr[c].err.e.Message = <<"Request failed after all retries">>
                  /\ mr[c].body = NoBody
                  /\ IF sent[c] = 0
                        THEN mr[c].err.e.Details = Map({})
                        ELSE \E e \in AttemptError(hist[c].last) :
                                mr[c].err.e.Details =
                                    Map({<<"error", Str(e.text)>>})

\* a call ended after a failed connection and then a 302: the details name
\* the 302
C23_Witness ==
    \E c \in UserCalls :
        /\ pc[c] = "done"
        /\ mr[c].err.kind = "timeout"
        /\ sent[c] = 2
        /\ hist[c].fail = 1
        /\ hist[c].last.code = 302
        /\ mr[c].err.e.Details =
              Map({<<"error", Str(<<"unexpected status code: ", "302">>)>>})

----------------------------------------------------------------------------
(* Error answers *)

\* the message field of a JSON object is present and a string
HasStringMessage(body) ==
    \E p \in body.fields : p[1] = "message" /\ p[2].t = "string"

\* C24: for a 4xx/5xx response whose body parses as a JSON object the
\* response error's message is the body's message field when that is a
\* string and "HTTP <code>: <resp.Status>" otherwise, and the details are the
\* parsed body; when the body does not parse, the message is
\* "HTTP <code>: <resp.Status>" and the details are empty.
C24_ErrorAnswerMessage ==
    \A c \in CallIds :
        (hist[c].last.readable /\ hist[c].last.code >= 400) =>
            LET code == hist[c].last.code
                body == hist[c].last.body
                e == mr[c].err.e
                http == <<"HTTP ", ToString(code), ": ", Status(code)>>
            IN  /\ pc[c] = "done"
                /\ mr[c].err.kind = "response"
                /\ IF body.json = "object"
                      THEN /\ e.Details = Map(body.fields)
                           /\ e.Message =
                                 IF HasStringMessage(body)
                                    THEN (CHOOSE p \in body.fields :
                                            p[1] = "message")[2].v
                                    ELSE http
                      ELSE /\ e.Details = Map({})
                           /\ e.Message = http

\* a 500 whose message field is a number: the message is the synthesized
\* one and the details are the parsed body
C24_Witness ==
    \E c \in UserCalls :
        /\ pc[c] = "done"
        /\ hist[c].last.code = 500
        /\ hist[c].last.body = ObjNumMsg
        /\ mr[c].err.e.Message =
              <<"HTTP ", "500", ": ", "500 Internal Server Error">>
        /\ mr[c].err.e.Details = Map({<<"message", Num(<<"42">>)>>})

----------------------------------------------------------------------------
(* Failures before the first attempt *)

\* the request of the call cannot be built: its address does not parse, or
\* its data does not serialise
Unbuildable(c) ==
    \/ ~Parses(reqURL[c])
    \/ op[c] \in PropertyOps /\ ~Marshals(arg[c].properties)

\* C25: when building the request fails (unparsable URL, body not
\* serialisable to JSON, request object cannot be created) makeRequest
\* returns a validation-kind error having made no attempt and without any
\* backoff wait; a validation failure is never retried.
C25_BuildFailureImmediate ==
    \A c \in CallIds :
        pc[c] # "idle" =>
            /\ Unbuildable(c) =>
                  /\ pc[c] = "done"
                  /\ mr[c].err.kind = "validation"
                  /\ mr[c].body = NoBody
                  /\ sent[c] = 0
                  /\ waited[c] = 0
                  /\ attempt[c] = 0
            /\ mr[c].err.kind = "validation" => Unbuildable(c)

\* CreateNode was handed a channel as a property value and failed at once
C25_Witness ==
    \E c \in UserCalls :
        /\ pc[c] = "done"
        /\ op[c] = "CreateNode"
        /\ arg[c].properties = ChanProperties
        /\ client.config.MaxRetries = 1
        /\ mr[c].err.kind = "validation"
        /\ mr[c].err.e.Message = <<"Failed to marshal request data">>
        /\ sent[c] = 0

----------------------------------------------------------------------------
(* Error kinds *)

\* the kinds makeRequest classifies a failure into
TransportKinds == {"validation", "response", "timeout"}

\* C26: every error returned by makeRequest, and so by every typed operation
\* and by Health, is of validation, response or timeout kind and reaches the
\* caller; the transport never raises an algorithm-kind error, and a
\* connection-kind error is produced only by NewClient when its health probe
\* fails.
C26_FailuresClassified ==
    /\ \A c \in CallIds :
          pc[c] = "done" =>
              /\ KindOf(mr[c].err) \in TransportKinds \cup {"nil"}
              /\ KindOf(OpReturn(c).err) \in TransportKinds \cup {"nil"}
              /\ mr[c].err # NoError => OpReturn(c).err = mr[c].err
    /\ \A c \in CallIds : KindOf(mr[c].err) \in TransportKinds \cup {"nil"}
    /\ KindOf(ncRet.err) \in {"nil", "connection"}
    /\ ncRet.err # NoError =>
          /\ ncPc = "returned"
          /\ ~SkipRequested
          /\ ncRet.client = NULL

\* an operation got a 2xx answer that does not decode and returned a
\* response-kind error of its own
C26_Witness ==
    \E c \in UserCalls :
        /\ pc[c] = "done"
        /\ op[c] = "GetStatistics"
        /\ mr[c].err = NoError
        /\ mr[c].body = JsonArray
        /\ KindOf(OpReturn(c).err) = "response"

----------------------------------------------------------------------------
(* The health probe *)

\* C27: the health probe runs under its own deadline equal to the configured
\* Timeout, and the probe, with all its retries and backoff waits, ends no
\* later than Timeout after it starts: once the deadline has passed it
\* spends no more time.
C27_ProbeEndsByDeadline ==
    \A c \in CallIds :
        (pc[c] # "idle" /\ op[c] = "Health") => hist[c].late = 0

----------------------------------------------------------------------------
(* The request body *)

\* C28: every attempt of a call that carries a request body transmits the
\* complete serialized JSON body, identical to the one offered on the first
\* attempt: no attempt finds the body reader used up by an earlier one.
C28_EveryAttemptCarriesBody ==
    \A c \in CallIds :
        (pc[c] # "idle" /\ HasData(op[c])) => hist[c].bodyless = 0

----------------------------------------------------------------------------
(* A negative retry budget *)

\* C29: for every MaxRetries >= 0 a call that reaches the loop makes at
\* least one attempt and its exhaustion error carries a recorded last error;
\* the exhaustion error with empty details is returned only when MaxRetries
\* is negative, in which case makeRequest (and so NewClient's probe) makes
\* no attempt at all and still reports a timeout-kind failure.
C29_NegativeBudgetNoAttempt ==
    \A c \in CallIds :
        pc[c] = "done" =>
            /\ (client.config.MaxRetries >= 0 /\ mr[c].err.kind # "validation") =>
                  /\ sent[c] >= 1
                  /\ mr[c].err.kind = "timeout" =>
                        /\ ~hist[c].lastFail.nil
                        /\ mr[c].err.e.Details =
                              Map({<<"error", Str(hist[c].lastFail.text)>>})
            /\ (mr[c].err.kind = "timeout" /\ mr[c].err.e.Details = Map({})) =>
                  client.config.MaxRetries < 0
            /\ (client.config.MaxRetries < 0 /\ mr[c].err.kind # "validation") =>
                  /\ sent[c] = 0
                  /\ waited[c] = 0
                  /\ mr[c].err.kind = "timeout"
                  /\ mr[c].err.e.Message = <<"Request failed after all retries">>
                  /\ mr[c].err.e.Details = Map({})

\* the probe of a client configured with MaxRetries = -1 has failed without
\* an attempt
C29_Witness ==
    /\ pc[Probe] = "done"
    /\ client.config.MaxRetries = -1
    /\ sent[Probe] = 0
    /\ mr[Probe].err.kind = "timeout"
    /\ mr[Probe].err.e.Details = Map({})

----------------------------------------------------------------------------
(* Results and errors *)

\* C30 as stated: every payload-returning operation returns exactly one of a
\* non-nil result and a non-nil error, for every response the server can
\* send, a 2xx response whose body is the JSON value null included.
C30_ExactlyOneOfResultAndError ==
    \A c \in UserCalls :
        (pc[c] = "done" /\ op[c] \in PayloadOps) =>
            (IsNilResult(op[c], OpReturn(c).result)
                <=> OpReturn(c).err # NoError)

\* C30 amended: no payload-returning operation returns a non-nil result
\* together with a non-nil error; GetNode, CreateNode, UpdateNode, GetEdge,
\* CreateEdge, UpdateEdge, RunBFS, RunDijkstra and RunPageRank return exactly
\* one of the two; Query and GetStatistics return a nil result with a nil
\* error exactly when the 2xx body is the JSON value null.
C30_BothNilOnlyForNull ==
    \A c \in UserCalls :
        (pc[c] = "done" /\ op[c] \in PayloadOps) =>
            LET r == OpReturn(c)
            IN  /\ r.err # NoError => IsNilResult(op[c], r.result)
                /\ (r.err = NoError /\ IsNilResult(op[c], r.result)) <=>
                      /\ op[c] \in {"Query", "GetStatistics"}
                      /\ mr[c].err = NoError
                      /\ mr[c].body = JsonNull

\* Query got 200 with the body null and returned nil, nil
C30_Witness ==
    \E c \in UserCalls :
        /\ pc[c] = "done"
        /\ op[c] = "Query"
        /\ hist[c].last.code = 200
        /\ mr[c].body = JsonNull
        /\ OpReturn(c).err = NoError
        /\ OpReturn(c).result = NULL

====
